---- MODULE Spec2Model ----
(***************************************************************************)
(* Board-of-directors extraction service (shashdixit/BOD).                 *)
(*                                                                         *)
(* Verification path : models/enhanced.py, BoardMemberVerifier             *)
(* Single-shot path  : models/search.py and app.py, process_model1         *)
(*                                                                         *)
(* Python strings that the code only compares or copies are TLA+ strings.  *)
(* Strings the code transforms (names, which are lower-cased) are          *)
(* sequences of characters.  A string built by an f-string is the sequence *)
(* of its pieces.  An exception is a record [type, text].                  *)
(***************************************************************************)
EXTENDS Integers, Sequences, FiniteSets, TLC

VARIABLES
    df,            \* run: the table read from input_csv_path
    pc,            \* run: position of the main thread
    error,         \* run: the exception that left run, if any
    website_urls,  \* run: df['Website URL'].unique()
    futures,       \* run: the futures of future_to_url, in submission order
    results,       \* run: the results list
    output_csv,    \* run: rows of output_csv_path, <<>> while not written
    feedback_csv,  \* run: rows of feedback_csv_path, <<>> while not written
    written,       \* run: the set of output files written so far
    call,          \* a function under study: its arguments
    ret,           \* a function under study: what it gave
    sheet,         \* process_model1: the spreadsheet read from the upload
    m1_pc,         \* process_model1: position of the handler
    m1_i,          \* process_model1: cells of the URL column already handled
    m1_calls,      \* process_model1: the calls of process_board_members, [url, board]
    csv_file,      \* process_model1: the file at output_csv_path
    flashed,       \* process_model1: the messages flashed to the user
    uploads,       \* app: the files of UPLOAD_FOLDER, by file name
    downloads,     \* app: the session folders of DOWNLOAD_FOLDER, by session id
    reqs           \* app: the upload requests being handled, one thread each

runVars == <<df, pc, error, website_urls, futures, results, output_csv,
             feedback_csv, written>>

fnVars == <<call, ret>>

m1Vars == <<sheet, m1_pc, m1_i, m1_calls, csv_file, flashed>>

upVars == <<uploads, downloads, reqs>>

vars == <<runVars, fnVars, m1Vars, upVars>>

(***************************************************************************)
(* Bounds of the model.                                                    *)
(***************************************************************************)
\* rows of an input table whose URL cells are arbitrary
MaxRows == 3

\* rows of an input table whose URL cells are all different
MaxUrls == 6

\* candidates and existing members handed to filter_new_members
MaxCandidates == 3

MaxExisting == 2

\* members of the board_members and advisory_members lists of one reply
MaxBoard == 4

MaxAdvisory == 3

\* pieces a reply text is made of
MaxPieces == 4

\* upload requests handled at the same time
MaxRequests == 2

\* cells of the URL column of an uploaded spreadsheet
MaxCells == 3

(***************************************************************************)
(* Program constants.                                                      *)
(***************************************************************************)
max_workers == 5
PoorAbove == 5
AverageAbove == 0

(***************************************************************************)
(* Generic helpers.                                                        *)
(***************************************************************************)
Range(s) == {s[i] : i \in DOMAIN s}

SeqsUpTo(S, n) == UNION {[1..k -> S] : k \in 0..n}

\* the URL cell that pandas reads as NaN
NaN == 0

\* pd.notna(row[col]): a row carries the set of its columns that hold NaN
notna(row, col) == col \notin row.na

NoExc == [type |-> "none", text |-> "none"]

Exc(t, x) == [type |-> t, text |-> x]

(***************************************************************************)
(* Names.  str.lower() maps every upper-case letter to its lower-case      *)
(* letter and leaves the other characters alone.                           *)
(***************************************************************************)
Letters == {"a", "A", "b", "B"}

LowerChar(c) == IF c = "A" THEN "a" ELSE IF c = "B" THEN "b" ELSE c

lower(s) == [i \in DOMAIN s |-> LowerChar(s[i])]

(***************************************************************************)
(* A member dict, reduced to its name keys.  get(m, k) is m.get(k, '').    *)
(***************************************************************************)
Member(ks, f, l) == [keys |-> ks, first |-> f, last |-> l]

FullMember(f, l) == Member({"First Name", "Last Name"}, f, l)

get(m, k) ==
    IF k \notin m.keys THEN <<>>
    ELSE IF k = "First Name" THEN m.first ELSE m.last

(***************************************************************************)
(* Python values exchanged with the generative API.                        *)
(*   PyNone          None (also what json.loads gives for "null")          *)
(*   PyList(items)   a JSON array; the single-shot extractor's records     *)
(*   PyDict(...)     a JSON object; the verification extractor's reply.    *)
(*                   keys: the keys present; lists: the keys among         *)
(*                   board_members/advisory_members whose value is a list  *)
(*   NotJson         text that json.loads rejects                          *)
(***************************************************************************)
PyNone == [type |-> "None"]

NotJson == [type |-> "invalid"]

PyList(items) == [type |-> "list", items |-> items]

PyDict(ks, ls, board, adv, st, msg) ==
    [type |-> "dict", keys |-> ks, lists |-> ls, board_members |-> board,
     advisory_members |-> adv, status |-> st, message |-> msg]

ErrorDict(msg) == PyDict({"status", "message"}, {}, <<>>, <<>>, "error", msg)

Returned(v) == [raised |-> NoExc, value |-> v]

Raised(e) == [raised |-> e, value |-> PyNone]

(***************************************************************************)
(* The reply text is a sequence of characters.  "P" stands for a chunk of  *)
(* text free of back-quotes, backslashes and white space: the JSON         *)
(* document itself, whose parsed value is carried beside the characters.   *)
(***************************************************************************)
RECURSIVE replace(_, _)
replace(s, old) ==
    IF Len(s) < Len(old) THEN s
    ELSE IF SubSeq(s, 1, Len(old)) = old
         THEN replace(SubSeq(s, Len(old) + 1, Len(s)), old)
         ELSE <<Head(s)>> \o replace(Tail(s), old)

Whitespace == {" ", "\n"}

RECURSIVE lstrip(_)
lstrip(s) ==
    IF s # <<>> /\ Head(s) \in Whitespace THEN lstrip(Tail(s)) ELSE s

RECURSIVE rstrip(_)
rstrip(s) ==
    IF s # <<>> /\ s[Len(s)] \in Whitespace
    THEN rstrip(SubSeq(s, 1, Len(s) - 1)) ELSE s

strip(s) == rstrip(lstrip(s))

\* the back-quote character
BQ == "BQ"

FenceJson == <<BQ, BQ, BQ, "j", "s", "o", "n">>

Fence == <<BQ, BQ, BQ>>

Backslash == <<"\\">>

CleanupKeepsBackslashes(chars) ==
    strip(replace(replace(chars, FenceJson), Fence))

\* .replace(fence + json, '').replace(fence, '').replace(backslash, '').strip()
Cleanup(chars) ==
    strip(replace(replace(replace(chars, FenceJson), Fence), Backslash))

\* json.loads: the parsed document, or NotJson where it raises JSONDecodeError
json_loads(chars, payload) == IF chars = <<"P">> THEN payload ELSE NotJson

(***************************************************************************)
(* The HTTP exchange with the API, as the extractors see it.               *)
(***************************************************************************)
Response(tr, st, body, cands, content, parts, text, chars, payload) ==
    [transport |-> tr, status |-> st, body |-> body, candidates |-> cands,
     content |-> content, parts |-> parts, text |-> text, chars |-> chars,
     payload |-> payload]

\* response.raise_for_status()
raise_for_status(resp) == resp.status >= 400 /\ resp.status < 600

\* the guard on the candidates / content / parts structure of data
StructureOk(resp) ==
    /\ resp.candidates # "missing"
    /\ resp.candidates # "empty"
    /\ resp.content # "missing"
    /\ resp.parts # "missing"
    /\ resp.parts # "empty"

\* isinstance(e, cls) for the exception classes the extractors name
IsInstance(e, cls) ==
    \/ cls = "Exception"
    \/ cls = e.type
    \/ /\ cls = "RequestException"
       /\ e.type \in {"ConnectionError", "HTTPError", "RequestsJSONDecodeError"}
    \/ /\ cls = "JSONDecodeError"
       /\ e.type = "RequestsJSONDecodeError"

Caught(e, handlers) == \E i \in DOMAIN handlers : IsInstance(e, handlers[i])

FirstHandler(e, handlers) ==
    handlers[CHOOSE i \in DOMAIN handlers :
                /\ IsInstance(e, handlers[i])
                /\ \A j \in 1..(i - 1) : ~IsInstance(e, handlers[j])]

\* what the statements before the structure guard raise, NoExc if nothing
RequestExc(resp) ==
    IF resp.transport = "error" THEN Exc("ConnectionError", "connection failed")
    ELSE IF raise_for_status(resp) THEN Exc("HTTPError", "bad status")
    ELSE IF resp.body = "invalid" THEN Exc("RequestsJSONDecodeError", "bad body")
    ELSE NoExc

(***************************************************************************)
(* models/search.py : process_board_members                                *)
(***************************************************************************)
SearchHandlersNoKeyError == <<"RequestException", "JSONDecodeError">>

SearchHandlers == <<"RequestException", "JSONDecodeError", "KeyError">>

\* the body of the try statement
SearchTryBody(resp) ==
    IF RequestExc(resp) # NoExc THEN Raised(RequestExc(resp))
    ELSE IF StructureOk(resp)
         THEN IF resp.text = "missing" THEN Raised(Exc("KeyError", "'text'"))
              ELSE LET json_output == json_loads(Cleanup(resp.chars), resp.payload)
                   IN IF json_output = NotJson THEN Returned(PyNone)
                      ELSE Returned(json_output)
         ELSE Returned(PyNone)

process_board_members(resp) ==
    LET r == SearchTryBody(resp)
    IN IF r.raised = NoExc THEN r
       ELSE IF Caught(r.raised, SearchHandlers) THEN Returned(PyNone)
       ELSE r

(***************************************************************************)
(* models/enhanced.py : BoardMemberVerifier.search_for_board_members       *)
(***************************************************************************)
VerifierHandlersNoCatchAll == <<"RequestException", "JSONDecodeError">>

VerifierHandlers == <<"RequestException", "JSONDecodeError", "Exception">>

HandlerMessage(cls) ==
    IF cls = "RequestException" THEN "API request failed: "
    ELSE IF cls = "JSONDecodeError" THEN "Failed to parse API response: "
    ELSE "Unexpected error: "

VerifierTryBody(resp) ==
    IF RequestExc(resp) # NoExc THEN Raised(RequestExc(resp))
    ELSE IF StructureOk(resp)
         THEN IF resp.text = "missing" THEN Raised(Exc("KeyError", "'text'"))
              ELSE LET json_output == json_loads(Cleanup(resp.chars), resp.payload)
                   IN IF json_output = NotJson
                      THEN Returned(ErrorDict(<<"Failed to parse JSON: ", "bad json">>))
                      ELSE Returned(json_output)
         ELSE Returned(ErrorDict(<<"Unexpected response structure from API">>))

search_for_board_members(resp) ==
    LET r == VerifierTryBody(resp)
    IN IF r.raised = NoExc THEN r
       ELSE IF Caught(r.raised, VerifierHandlers)
            THEN Returned(ErrorDict(
                     <<HandlerMessage(FirstHandler(r.raised, VerifierHandlers)),
                       r.raised.text>>))
       ELSE r

(***************************************************************************)
(* models/enhanced.py : get_existing_board_members                         *)
(* A table is [columns, rows]; a row is [url, first, last, na].            *)
(* row[col] raises KeyError when the table has no column col.              *)
(***************************************************************************)
RECURSIVE ExistingLoop(_, _, _)
ExistingLoop(rows, cols, existing_members) ==
    IF rows = <<>> THEN Returned(existing_members)
    ELSE LET row == Head(rows)
         IN IF "First Name" \notin cols
            THEN Raised(Exc("KeyError", "'First Name'"))
            ELSE IF ~notna(row, "First Name")
            THEN ExistingLoop(Tail(rows), cols, existing_members)
            ELSE IF "Last Name" \notin cols
            THEN Raised(Exc("KeyError", "'Last Name'"))
            ELSE IF ~notna(row, "Last Name")
            THEN ExistingLoop(Tail(rows), cols, existing_members)
            ELSE IF "Title" \notin cols
            THEN Raised(Exc("KeyError", "'Title'"))
            ELSE IF "Biography" \notin cols
            THEN Raised(Exc("KeyError", "'Biography'"))
            ELSE ExistingLoop(Tail(rows), cols,
                     Append(existing_members, FullMember(row.first, row.last)))

\* df[df.url == website_url]: NaN equals nothing, itself included
SiteData(website_url, table) ==
    SelectSeq(table.rows, LAMBDA row : row.url = website_url /\ website_url # NaN)

get_existing_board_members(website_url, table) ==
    ExistingLoop(SiteData(website_url, table), table.columns, <<>>)

(***************************************************************************)
(* models/enhanced.py : filter_new_members                                 *)
(***************************************************************************)
SameFirstOrLastName(member, existing) ==
    \/ lower(get(member, "First Name")) = lower(get(existing, "First Name"))
    \/ lower(get(member, "Last Name")) = lower(get(existing, "Last Name"))

SameName(member, existing) ==
    /\ lower(get(member, "First Name")) = lower(get(existing, "First Name"))
    /\ lower(get(member, "Last Name")) = lower(get(existing, "Last Name"))

\* the inner loop: is_existing, set at the first match
RECURSIVE IsExisting(_, _)
IsExisting(member, existing_members) ==
    IF existing_members = <<>> THEN FALSE
    ELSE IF SameName(member, Head(existing_members)) THEN TRUE
    ELSE IsExisting(member, Tail(existing_members))

RECURSIVE FilterLoop(_, _, _)
FilterLoop(all_members, existing_members, new_members) ==
    IF all_members = <<>> THEN new_members
    ELSE FilterLoop(Tail(all_members), existing_members,
             IF ~IsExisting(Head(all_members), existing_members)
             THEN Append(new_members, Head(all_members))
             ELSE new_members)

filter_new_members(all_members, existing_members) ==
    FilterLoop(all_members, existing_members, <<>>)

(***************************************************************************)
(* models/enhanced.py : process_website                                    *)
(***************************************************************************)
SiteResult(url, members, fb, st) ==
    [website_url |-> url, new_members |-> members, feedback |-> fb,
     search_status |-> st]

FeedbackPoorFromFive(n) ==
    IF n >= PoorAbove THEN <<"POOR">>
    ELSE IF n > AverageAbove THEN <<"AVERAGE">>
    ELSE <<"GOOD">>

Feedback(n) ==
    IF n > PoorAbove THEN <<"POOR">>
    ELSE IF n > AverageAbove THEN <<"AVERAGE">>
    ELSE <<"GOOD">>

\* the two extend statements
AllMembers(search_result) ==
    (IF "board_members" \in search_result.keys
        /\ "board_members" \in search_result.lists
     THEN search_result.board_members ELSE <<>>)
    \o
    (IF "advisory_members" \in search_result.keys
        /\ "advisory_members" \in search_result.lists
     THEN search_result.advisory_members ELSE <<>>)

SearchStatus(search_result) ==
    IF "status" \in search_result.keys THEN search_result.status ELSE "unknown"

\* the statements after the two calls, on the value the extractor returned
Package(website_url, existing_members, search_result) ==
    IF search_result.type = "None"
    THEN Raised(Exc("TypeError", "argument of type 'NoneType' is not iterable"))
    ELSE IF search_result.type = "list"
    THEN Raised(Exc("AttributeError", "'list' object has no attribute 'get'"))
    ELSE LET new_members ==
                 filter_new_members(AllMembers(search_result), existing_members)
         IN Returned(SiteResult(website_url, new_members,
                                Feedback(Len(new_members)),
                                SearchStatus(search_result)))

process_website(website_url, table, resp) ==
    LET existing == get_existing_board_members(website_url, table)
        found == search_for_board_members(resp)
    IN IF existing.raised # NoExc THEN existing
       ELSE IF found.raised # NoExc THEN found
       ELSE Package(website_url, existing.value, found.value)

(***************************************************************************)
(* models/enhanced.py : update_csv_with_new_members, save_feedback_to_csv  *)
(***************************************************************************)
NewRow(website_url, member) ==
    [url |-> website_url, first |-> get(member, "First Name"),
     last |-> get(member, "Last Name"), na |-> {}]

RECURSIVE NewRows(_)
NewRows(rs) ==
    IF rs = <<>> THEN <<>>
    ELSE [i \in DOMAIN Head(rs).new_members |->
              NewRow(Head(rs).website_url, Head(rs).new_members[i])]
         \o NewRows(Tail(rs))

update_csv_with_new_members(table, rs) == table.rows \o NewRows(rs)

FeedbackRows(rs) ==
    [i \in DOMAIN rs |->
        [url |-> rs[i].website_url, search_status |-> rs[i].search_status,
         found |-> Len(rs[i].new_members), feedback |-> rs[i].feedback]]

(***************************************************************************)
(* models/enhanced.py : run                                                *)
(***************************************************************************)
UrlColumn(table) == [i \in DOMAIN table.rows |-> table.rows[i].url]

\* Series.unique(): the distinct values in order of first appearance
RECURSIVE UniqueLoop(_, _)
UniqueLoop(s, seen) ==
    IF s = <<>> THEN seen
    ELSE UniqueLoop(Tail(s),
             IF Head(s) \in Range(seen) THEN seen ELSE Append(seen, Head(s)))

KeepsDuplicates(s) == s

unique(s) == UniqueLoop(s, <<>>)

NoOutcome == Returned(PyNone)

Running(fs) == {i \in DOMAIN fs : fs[i].state = "running"}

AlwaysIdle(fs) == TRUE

\* ThreadPoolExecutor(max_workers=5): a worker takes a task only when idle
IdleWorker(fs) == Cardinality(Running(fs)) < max_workers

CatchesKeyErrorOnly(e) == IsInstance(e, "KeyError")

\* except Exception as e
RunCatches(e) == IsInstance(e, "Exception")

PlaceholderWithoutText(url, e) ==
    SiteResult(url, <<>>, <<"Error processing website">>, "error")

\* the placeholder result of the except clause
Placeholder(url, e) ==
    SiteResult(url, <<>>, <<"Error processing website: ", e.text>>, "error")

LoopLeftEarly(rs, fs) == TRUE

\* the loop over future_to_url ends when every future has been visited
LoopFinished(rs, fs) == Len(rs) = Len(fs)

FirstCompleted(rs) ==
    LET ready == {i \in DOMAIN futures :
                    /\ futures[i].state \in {"completed", "failed"}
                    /\ \A k \in DOMAIN rs : rs[k].website_url # website_urls[i]}
    IN IF ready = {} THEN Len(rs) + 1 ELSE CHOOSE i \in ready : TRUE

\* iterating the dict future_to_url visits the futures in insertion order
NextFuture(rs) == Len(rs) + 1

\* df = self.load_csv_data(); website_urls = df[url column].unique()
RunStart ==
    /\ pc = "start"
    /\ IF "Website URL" \in df.columns
       THEN /\ website_urls' = unique(UrlColumn(df))
            /\ pc' = "pool"
            /\ error' = error
       ELSE /\ pc' = "raised"
            /\ error' = Exc("KeyError", "'Website URL'")
            /\ website_urls' = website_urls
    /\ UNCHANGED <<df, futures, results, output_csv, feedback_csv, written>>
    /\ UNCHANGED <<fnVars, m1Vars, upVars>>

\* executor.submit(self.process_website, url, df), one URL after the other
Submit ==
    /\ pc = "pool"
    /\ Len(futures) < Len(website_urls)
    /\ futures' = Append(futures, [state |-> "pending", outcome |-> NoOutcome])
    /\ UNCHANGED <<df, pc, error, website_urls, results, output_csv,
                   feedback_csv, written>>
    /\ UNCHANGED <<fnVars, m1Vars, upVars>>

\* an idle worker takes the oldest task of the work queue
WorkerStart(i) ==
    /\ pc = "pool"
    /\ futures[i].state = "pending"
    /\ \A j \in 1..(i - 1) : futures[j].state # "pending"
    /\ IdleWorker(futures)
    /\ futures' = [futures EXCEPT ![i].state = "running"]
    /\ UNCHANGED <<df, pc, error, website_urls, results, output_csv,
                   feedback_csv, written>>
    /\ UNCHANGED <<fnVars, m1Vars, upVars>>

\* process_website returns or raises; the future keeps the outcome
WorkerFinish(i, resp) ==
    /\ pc = "pool"
    /\ futures[i].state = "running"
    /\ LET outcome == process_website(website_urls[i], df, resp)
       IN futures' = [futures EXCEPT
              ![i] = [state |-> IF outcome.raised = NoExc
                                THEN "completed" ELSE "failed",
                      outcome |-> outcome]]
    /\ UNCHANGED <<df, pc, error, website_urls, results, output_csv,
                   feedback_csv, written>>
    /\ UNCHANGED <<fnVars, m1Vars, upVars>>

\* one turn of the loop over future_to_url: future.result() blocks until
\* the future is done, then the result or the placeholder is appended
Collect ==
    /\ pc = "pool"
    /\ Len(futures) = Len(website_urls)
    /\ Len(results) < Len(futures)
    /\ LET i == NextFuture(results)
           url == website_urls[i]
           future == futures[i]
       IN /\ future.state \in {"completed", "failed"}
          /\ IF future.state = "completed"
             THEN /\ results' = Append(results, future.outcome.value)
                  /\ UNCHANGED <<pc, error>>
             ELSE IF RunCatches(future.outcome.raised)
             THEN /\ results' = Append(results,
                                       Placeholder(url, future.outcome.raised))
                  /\ UNCHANGED <<pc, error>>
             ELSE /\ pc' = "raised"
                  /\ error' = future.outcome.raised
                  /\ results' = results
    /\ UNCHANGED <<df, website_urls, futures, output_csv, feedback_csv, written>>
    /\ UNCHANGED <<fnVars, m1Vars, upVars>>

\* the with block ends; updated_df.to_csv(self.output_csv_path)
SaveEnhanced ==
    /\ pc = "pool"
    /\ Len(futures) = Len(website_urls)
    /\ LoopFinished(results, futures)
    /\ output_csv' = update_csv_with_new_members(df, results)
    /\ written' = written \union {"output_csv"}
    /\ pc' = "feedback"
    /\ UNCHANGED <<df, error, website_urls, futures, results, feedback_csv>>
    /\ UNCHANGED <<fnVars, m1Vars, upVars>>

\* self.save_feedback_to_csv(results); return
SaveFeedback ==
    /\ pc = "feedback"
    /\ feedback_csv' = FeedbackRows(results)
    /\ written' = written \union {"feedback_csv"}
    /\ pc' = "done"
    /\ UNCHANGED <<df, error, website_urls, futures, results, output_csv>>
    /\ UNCHANGED <<fnVars, m1Vars, upVars>>

(***************************************************************************)
(* Inputs of the verification path.                                        *)
(***************************************************************************)
VerifierColumns ==
    {"Website URL", "First Name", "Last Name", "Title", "Biography",
     "Status", "Comments"}

\* every column present, or exactly one of them absent
ColumnChoices == {VerifierColumns} \union {VerifierColumns \ {c} : c \in VerifierColumns}

MaxOf(s) == IF s = <<>> THEN NaN
            ELSE CHOOSE m \in Range(s) : \A v \in Range(s) : v <= m

\* URL columns of n cells: a cell is NaN, an earlier URL or the next new URL
RECURSIVE UrlColumns(_)
UrlColumns(n) ==
    IF n = 0 THEN {<<>>}
    ELSE UNION {{Append(s, v) : v \in NaN..(MaxOf(s) + 1)} : s \in UrlColumns(n - 1)}

KnownMember == FullMember(<<"a">>, <<"A">>)

OtherMember == FullMember(<<"b">>, <<"B">>)

TableOf(cols, urls) ==
    [columns |-> cols,
     rows |-> [i \in DOMAIN urls |->
                  [url |-> urls[i], first |-> KnownMember.first,
                   last |-> KnownMember.last, na |-> {}]]]

\* short tables with any URL column and any column choice, and long tables
\* of distinct URLs with every column
RunTables ==
    {TableOf(cols, urls) :
        cols \in ColumnChoices, urls \in UNION {UrlColumns(n) : n \in 0..MaxRows}}
    \union
    {TableOf(VerifierColumns, [i \in 1..k |-> i]) : k \in (MaxRows + 1)..MaxUrls}

FencedDocument ==
    <<BQ, BQ, BQ, "j", "s", "o", "n", "\n", "P", "\n", BQ, BQ, BQ>>

OkResponse(chars, payload) ==
    Response("ok", 200, "json", "one", "present", "one", "present", chars, payload)

TransportError ==
    Response("error", 200, "json", "one", "present", "one", "present", <<>>, PyNone)

\* what the API answers to the tasks of a batch: no answer, a document with
\* one member the table lacks, the document null
RunResponses ==
    {TransportError,
     OkResponse(FencedDocument,
                PyDict({"board_members", "status"}, {"board_members"},
                       <<OtherMember>>, <<>>, "success", <<>>)),
     OkResponse(<<"P">>, PyNone)}

InitRun ==
    /\ df \in RunTables
    /\ pc = "start"
    /\ error = NoExc
    /\ website_urls = <<>>
    /\ futures = <<>>
    /\ results = <<>>
    /\ output_csv = <<>>
    /\ feedback_csv = <<>>
    /\ written = {}

\* the values of the variables a specification leaves alone
IdleRun ==
    /\ df = TableOf(VerifierColumns, <<>>)
    /\ pc = "idle"
    /\ error = NoExc
    /\ website_urls = <<>>
    /\ futures = <<>>
    /\ results = <<>>
    /\ output_csv = <<>>
    /\ feedback_csv = <<>>
    /\ written = {}

IdleFn ==
    /\ call = [fn |-> "none"]
    /\ ret = [done |-> FALSE]

IdleModel1 ==
    /\ sheet = [columns |-> {}, cells |-> <<>>]
    /\ m1_pc = "idle"
    /\ m1_i = 0
    /\ m1_calls = <<>>
    /\ csv_file = [exists |-> FALSE, lines |-> <<>>]
    /\ flashed = <<>>

\* no upload request is being handled
IdleUpload ==
    /\ uploads = <<>>
    /\ downloads = <<>>
    /\ reqs = <<>>

NextRun ==
    \/ RunStart
    \/ Submit
    \/ \E i \in DOMAIN futures : WorkerStart(i)
    \/ \E i \in DOMAIN futures : \E resp \in RunResponses : WorkerFinish(i, resp)
    \/ Collect
    \/ SaveEnhanced
    \/ SaveFeedback

InitSpecRun == InitRun /\ IdleFn /\ IdleModel1 /\ IdleUpload

SpecRun == InitSpecRun /\ [][NextRun]_vars

(***************************************************************************)
(* filter_new_members on its own: SpecFilter.                              *)
(***************************************************************************)
\* members already in the table
ExistingMembers ==
    {FullMember(<<"a", "b">>, <<"a">>), FullMember(<<"A", "B">>, <<"A">>),
     FullMember(<<"b">>, <<"a">>)}

\* what the API may list: known members in another spelling, a member with
\* a known first name and another last name, a dict without a last name
CandidateMembers ==
    {FullMember(<<"A", "B">>, <<"a">>), FullMember(<<"a", "b">>, <<"A">>),
     FullMember(<<"b">>, <<"A">>), FullMember(<<"a", "b">>, <<"b">>),
     Member({"First Name"}, <<"a", "b">>, <<>>)}

InitFilter ==
    /\ call \in {[fn |-> "filter_new_members", all_members |-> a,
                  existing_members |-> e] :
                    a \in SeqsUpTo(CandidateMembers, MaxCandidates),
                    e \in SeqsUpTo(ExistingMembers, MaxExisting)}
    /\ ret = [done |-> FALSE]

CallFilter ==
    /\ call.fn = "filter_new_members"
    /\ ~ret.done
    /\ ret' = [done |-> TRUE,
               value |-> filter_new_members(call.all_members,
                                            call.existing_members)]
    /\ UNCHANGED <<call, runVars, m1Vars, upVars>>

NextFilter == CallFilter

InitSpecFilter == InitFilter /\ IdleRun /\ IdleModel1 /\ IdleUpload

SpecFilter == InitSpecFilter /\ [][NextFilter]_vars

(***************************************************************************)
(* process_website on its own: SpecSite.                                   *)
(***************************************************************************)
\* rows of the table: the site's known member, the same with an empty first
\* name cell, a row of another site
SiteRows ==
    {[url |-> 1, first |-> KnownMember.first, last |-> KnownMember.last,
      na |-> {}],
     [url |-> 1, first |-> KnownMember.first, last |-> KnownMember.last,
      na |-> {"First Name"}],
     [url |-> 2, first |-> OtherMember.first,
      last |-> OtherMember.last, na |-> {}]}

SiteTables ==
    {[columns |-> VerifierColumns, rows |-> r] : r \in SeqsUpTo(SiteRows, 2)}

\* the known member in another spelling, and a member the table lacks
ReplyMembers == {FullMember(<<"A">>, <<"a">>), OtherMember}

ReplyDocuments ==
    {PyDict(ks, {"board_members", "advisory_members"}, b, a, "success", <<>>) :
        ks \in {{"board_members", "advisory_members", "status"},
                {"board_members", "advisory_members"}},
        b \in SeqsUpTo(ReplyMembers, MaxBoard),
        a \in SeqsUpTo(ReplyMembers, MaxAdvisory)}
    \union
    {PyDict({"board_members", "status"}, {}, <<>>, <<>>, "not_found", <<>>),
     PyDict({"status", "message"}, {}, <<>>, <<>>, "not_found", <<"nothing">>),
     PyList(<<>>),
     PyNone}

\* replies that carry no usable document
FailedResponses ==
    {TransportError,
     Response("ok", 500, "json", "one", "present", "one", "present", <<>>, PyNone),
     Response("ok", 200, "invalid", "one", "present", "one", "present", <<>>, PyNone),
     Response("ok", 200, "json", "missing", "present", "one", "present", <<>>, PyNone),
     Response("ok", 200, "json", "one", "present", "empty", "present", <<>>, PyNone),
     Response("ok", 200, "json", "one", "present", "one", "missing", <<>>, PyNone),
     OkResponse(<<"P", "\\", "P">>, PyNone),
     OkResponse(<<BQ, BQ, BQ, "j", "s", "o", "n">>, PyNone)}

SiteResponses ==
    FailedResponses \union {OkResponse(FencedDocument, d) : d \in ReplyDocuments}

InitSite ==
    /\ call \in {[fn |-> "process_website", website_url |-> 1,
                  table |-> t, resp |-> r] :
                    t \in SiteTables, r \in SiteResponses}
    /\ ret = [done |-> FALSE]

CallProcessWebsite ==
    /\ call.fn = "process_website"
    /\ ~ret.done
    /\ ret' = [done |-> TRUE,
               outcome |-> process_website(call.website_url, call.table,
                                           call.resp)]
    /\ UNCHANGED <<call, runVars, m1Vars, upVars>>

NextSite == CallProcessWebsite

InitSpecSite == InitSite /\ IdleRun /\ IdleModel1 /\ IdleUpload

SpecSite == InitSpecSite /\ [][NextSite]_vars

(***************************************************************************)
(* The two extractors on the same reply: SpecExtract.                      *)
(***************************************************************************)
ReplyTexts ==
    {FencedDocument, <<"P">>, <<" ", "P", "\n">>, <<"P", "\\", "P">>, <<>>}

ExtractResponses ==
    {Response(tr, st, body, cands, content, parts, text, chars,
              PyList(<<>>)) :
        tr \in {"ok", "error"}, st \in {200, 404, 500},
        body \in {"json", "invalid"},
        cands \in {"missing", "empty", "one"},
        content \in {"missing", "present"},
        parts \in {"missing", "empty", "one"},
        text \in {"missing", "present"},
        chars \in ReplyTexts}

NotCalled == [called |-> FALSE]

InitExtract ==
    /\ call \in {[fn |-> "extract", resp |-> r] : r \in ExtractResponses}
    /\ ret = [search |-> NotCalled, verify |-> NotCalled]

CallProcessBoardMembers ==
    /\ call.fn = "extract"
    /\ ~ret.search.called
    /\ ret' = [ret EXCEPT !.search =
                  [called |-> TRUE, outcome |-> process_board_members(call.resp)]]
    /\ UNCHANGED <<call, runVars, m1Vars, upVars>>

CallSearchForBoardMembers ==
    /\ call.fn = "extract"
    /\ ~ret.verify.called
    /\ ret' = [ret EXCEPT !.verify =
                  [called |-> TRUE,
                   outcome |-> search_for_board_members(call.resp)]]
    /\ UNCHANGED <<call, runVars, m1Vars, upVars>>

NextExtract == CallProcessBoardMembers \/ CallSearchForBoardMembers

InitSpecExtract == InitExtract /\ IdleRun /\ IdleModel1 /\ IdleUpload

SpecExtract == InitSpecExtract /\ [][NextExtract]_vars

(***************************************************************************)
(* models/search.py : save_to_csv                                          *)
(* A record of the extractor is [keys, Status, Comments]: its keys in dict *)
(* order and the values of two of them.  The file at csv_file_path is      *)
(* [exists, lines]; a line is the header or a row, each with the           *)
(* fieldnames it was written with.                                         *)
(***************************************************************************)
Record(ks, st, cm) == [keys |-> ks, Status |-> st, Comments |-> cm]

\* record["Website URL"] = website_url: a new key goes last
WithUrl(record) ==
    IF "Website URL" \in Range(record.keys) THEN record
    ELSE [record EXCEPT !.keys = Append(record.keys, "Website URL")]

\* ["Website URL"] + the other keys of data[0]
Fieldnames(first) ==
    <<"Website URL">> \o SelectSeq(first.keys, LAMBDA k : k # "Website URL")

HeaderLine(fieldnames) == [kind |-> "header", fields |-> fieldnames]

\* DictWriter fills the fields a record lacks with the empty string
RowLine(record, website_url, fieldnames) ==
    [kind |-> "row", fields |-> fieldnames, url |-> website_url,
     Status |-> IF "Status" \in Range(record.keys) THEN record.Status ELSE "",
     Comments |-> IF "Comments" \in Range(record.keys)
                  THEN record.Comments ELSE ""]

\* DictWriter raises ValueError on a record with a key outside fieldnames
ExtraKeys(record, fieldnames) ==
    \E k \in Range(record.keys) : k \notin Range(fieldnames)

RowsBuiltFirst(lines, data, website_url, fieldnames) ==
    IF \E i \in DOMAIN data : ExtraKeys(data[i], fieldnames) THEN lines
    ELSE lines \o [i \in DOMAIN data |->
                      RowLine(data[i], website_url, fieldnames)]

\* writer.writerows(data): rows are written until one raises
RECURSIVE WriteRows(_, _, _, _)
WriteRows(lines, data, website_url, fieldnames) ==
    IF data = <<>> THEN lines
    ELSE IF ExtraKeys(Head(data), fieldnames) THEN lines
    ELSE WriteRows(Append(lines, RowLine(Head(data), website_url, fieldnames)),
                   Tail(data), website_url, fieldnames)

HeaderAlways(write_header, file) == TRUE

\* write_header and not file_exists, file_exists being isfile and size > 0
WritesHeader(write_header, file) ==
    write_header /\ ~(file.exists /\ file.lines # <<>>)

save_to_csv(data, website_url, file, write_header) ==
    IF data = <<>> THEN file
    ELSE LET stamped == [i \in DOMAIN data |-> WithUrl(data[i])]
             fieldnames == Fieldnames(stamped[1])
             opened == IF WritesHeader(write_header, file)
                       THEN Append(file.lines, HeaderLine(fieldnames))
                       ELSE file.lines
         IN [exists |-> TRUE,
             lines |-> WriteRows(opened, stamped, website_url, fieldnames)]

(***************************************************************************)
(* app.py : process_model1                                                 *)
(***************************************************************************)
NotFoundEntry(comment) ==
    <<Record(<<"Website URL", "Status", "Comments">>, "Not Found", comment)>>

\* the truth value of board_data
Truthy(board_data) ==
    \/ board_data.type = "list" /\ board_data.items # <<>>
    \/ board_data.type = "dict" /\ board_data.keys # {}

\* exactly one record, whose Status is the no-results sentinel
IsBareSentinel(items) ==
    /\ Len(items) = 1
    /\ items[1].keys = <<"Status", "Comments">>
    /\ items[1].Status = "No board members found"

IsSentinel(items) ==
    /\ Len(items) = 1
    /\ "Status" \in Range(items[1].keys)
    /\ items[1].Status = "No board members found"

\* the body of the loop for one non-blank cell, after the extractor call:
\* the file afterwards, or the exception that leaves the handler
Normalize(board, website_url, file) ==
    LET write_header == ~file.exists
    IN IF board.raised # NoExc THEN [raised |-> board.raised, file |-> file]
       ELSE IF ~Truthy(board.value)
       THEN [raised |-> NoExc,
             file |-> save_to_csv(
                          NotFoundEntry("API call failed or no data returned"),
                          website_url, file, write_header)]
       ELSE IF board.value.type = "dict"
       THEN [raised |-> IF Cardinality(board.value.keys) = 1
                        THEN Exc("KeyError", "0")
                        ELSE Exc("TypeError",
                                 "'str' object does not support item assignment"),
             file |-> file]
       ELSE IF IsSentinel(board.value.items)
       THEN [raised |-> NoExc,
             file |-> save_to_csv(NotFoundEntry("No board members found"),
                                  website_url, file, write_header)]
       ELSE [raised |-> NoExc,
             file |-> save_to_csv(board.value.items, website_url, file,
                                  write_header)]

UrlColumnName == "Portfolio company Website"

ColumnNotChecked(table) == TRUE

\* 'Portfolio company Website' in df.columns
HasUrlColumn(table) == UrlColumnName \in table.columns

\* the check of the URL column, then the removal of an old output file
Validate ==
    /\ m1_pc = "validate"
    /\ IF HasUrlColumn(sheet)
       THEN /\ m1_pc' = "loop"
            /\ csv_file' = [exists |-> FALSE, lines |-> <<>>]
            /\ flashed' = flashed
       ELSE /\ m1_pc' = "redirected"
            /\ flashed' = Append(flashed,
                   "Error: 'Portfolio company Website' column not found in the Excel file.")
            /\ csv_file' = csv_file
    /\ UNCHANGED <<sheet, m1_i, m1_calls>>
    /\ UNCHANGED <<runVars, fnVars, upVars>>

\* a blank cell is skipped
SkipBlank ==
    /\ m1_pc = "loop"
    /\ m1_i < Len(sheet.cells)
    /\ sheet.cells[m1_i + 1] = NaN
    /\ m1_i' = m1_i + 1
    /\ UNCHANGED <<sheet, m1_pc, m1_calls, csv_file, flashed>>
    /\ UNCHANGED <<runVars, fnVars, upVars>>

\* one turn of the loop for a URL: the extractor call, then the rows
HandleUrl(resp) ==
    /\ m1_pc = "loop"
    /\ m1_i < Len(sheet.cells)
    /\ sheet.cells[m1_i + 1] # NaN
    /\ LET website_url == sheet.cells[m1_i + 1]
           board == process_board_members(resp)
           done == Normalize(board, website_url, csv_file)
       IN /\ m1_calls' = Append(m1_calls,
                                [url |-> website_url, board |-> board])
          /\ csv_file' = done.file
          /\ IF done.raised = NoExc
             THEN m1_i' = m1_i + 1 /\ m1_pc' = m1_pc
             ELSE m1_i' = m1_i /\ m1_pc' = "raised"
    /\ UNCHANGED <<sheet, flashed>>
    /\ UNCHANGED <<runVars, fnVars, upVars>>

\* os.remove(file_path); send_file(output_csv_path), which needs the file
SendFile ==
    /\ m1_pc = "loop"
    /\ m1_i = Len(sheet.cells)
    /\ m1_pc' = IF csv_file.exists THEN "sent" ELSE "raised"
    /\ UNCHANGED <<sheet, m1_i, m1_calls, csv_file, flashed>>
    /\ UNCHANGED <<runVars, fnVars, upVars>>

(***************************************************************************)
(* Inputs of the single-shot path.                                         *)
(***************************************************************************)
NoResults ==
    Record(<<"Status", "Comments">>, "No board members found",
           "No information available")

NoResultsWithName ==
    Record(<<"First Name", "Status">>, "No board members found", "")

BoardMember ==
    Record(<<"Status", "Comments", "First Name", "Last Name">>,
           "BOM Available", "Board of Directors")

MemberWithEmail ==
    Record(<<"Status", "First Name", "Email">>, "BOM Available", "")

NameOnly == Record(<<"First Name">>, "", "")

\* what the model may answer for one URL
BoardDocuments ==
    {PyNone, PyList(<<>>), PyList(<<NoResults>>), PyList(<<NoResultsWithName>>),
     PyList(<<BoardMember>>), PyList(<<BoardMember, NoResults>>),
     PyList(<<BoardMember, MemberWithEmail>>), PyList(<<NameOnly, BoardMember>>),
     PyDict({"board_members"}, {"board_members"}, <<>>, <<>>, "", <<>>)}

Model1Responses ==
    {TransportError, OkResponse(<<"P", "\\", "P">>, PyNone)}
    \union {OkResponse(FencedDocument, d) : d \in BoardDocuments}

Sheets ==
    {[columns |-> {UrlColumnName, "Name"}, cells |-> c] :
        c \in UNION {UrlColumns(n) : n \in 0..MaxCells}}
    \union {[columns |-> {"Name"}, cells |-> <<>>]}

InitModel1 ==
    /\ sheet \in Sheets
    /\ m1_pc = "validate"
    /\ m1_i = 0
    /\ m1_calls = <<>>
    /\ csv_file = [exists |-> FALSE, lines |-> <<>>]
    /\ flashed = <<>>

NextModel1 ==
    \/ Validate
    \/ SkipBlank
    \/ \E resp \in Model1Responses : HandleUrl(resp)
    \/ SendFile

InitSpecModel1 == InitModel1 /\ IdleRun /\ IdleFn /\ IdleUpload

SpecModel1 == InitSpecModel1 /\ [][NextModel1]_vars

\* a request to either endpoint
InitSpecUpload ==
    \/ InitModel1 /\ IdleRun /\ IdleFn /\ IdleUpload
    \/ InitRun /\ IdleModel1 /\ IdleFn /\ IdleUpload

NextUpload == NextModel1 \/ NextRun

SpecUpload == InitSpecUpload /\ [][NextUpload]_vars

(***************************************************************************)
(* The cleanup of the reply text on its own: SpecCleanup.                  *)
(***************************************************************************)
\* what a reply text is made of: an opening fence, a back-quote, a
\* backslash, a blank, a line break, a chunk of the document
Pieces == {FenceJson, <<BQ>>, Backslash, <<" ">>, <<"\n">>, <<"P">>}

RECURSIVE TextsOf(_)
TextsOf(n) ==
    IF n = 0 THEN {<<>>}
    ELSE TextsOf(n - 1)
         \union {t \o piece : t \in TextsOf(n - 1), piece \in Pieces}

InitCleanup ==
    /\ call \in {[fn |-> "cleanup", text |-> t] : t \in TextsOf(MaxPieces)}
    /\ ret = [done |-> FALSE]

\* parsable_output -> json_string
CallCleanup ==
    /\ call.fn = "cleanup"
    /\ ~ret.done
    /\ ret' = [done |-> TRUE, value |-> Cleanup(call.text)]
    /\ UNCHANGED <<call, runVars, m1Vars, upVars>>

NextCleanup == CallCleanup

InitSpecCleanup == InitCleanup /\ IdleRun /\ IdleModel1 /\ IdleUpload

SpecCleanup == InitSpecCleanup /\ [][NextCleanup]_vars

(***************************************************************************)
(* app.py : upload requests handled at the same time, one thread each:     *)
(* SpecConcurrent.  A file is known by the request that uploaded it; what  *)
(* the processing makes of a table is left to SpecModel1 and SpecRun, here *)
(* a table is valid (the request gets its artifact) or not.                *)
(***************************************************************************)
NoFile == [owner |-> 0, valid |-> FALSE]

NoArtifact == [madeFrom |-> 0]

\* secure_filename(file.filename), of an allowed extension of the endpoint
FileNames(endpoint) ==
    IF endpoint = "process_model1" THEN {"data.xlsx", "other.xlsx"}
    ELSE {"data.csv", "other.csv"}

AllFileNames == FileNames("process_model1") \union FileNames("process_model2")

\* a request as it arrives: the endpoint, the name and the table of its file
Request(r, endpoint, filename, valid) ==
    [endpoint |-> endpoint, filename |-> filename,
     file |-> [owner |-> r, valid |-> valid],
     pc |-> "received", session_id |-> 0, df |-> NoFile, removed |-> NoFile,
     sent |-> NoArtifact, error |-> "none"]

Arrivals(r) ==
    {Request(r, e, f, v) :
        e \in {"process_model1", "process_model2"},
        f \in AllFileNames, v \in BOOLEAN}

InitConcurrent ==
    /\ uploads = [f \in AllFileNames |-> NoFile]
    /\ downloads = <<>>
    /\ reqs \in {q \in [1..MaxRequests -> UNION {Arrivals(r) : r \in 1..MaxRequests}] :
                    \A r \in 1..MaxRequests :
                        /\ q[r] \in Arrivals(r)
                        /\ q[r].filename \in FileNames(q[r].endpoint)}

\* session_id = str(uuid.uuid4()); os.makedirs(session_folder): an
\* identifier no other request has
NewSession(r) ==
    /\ reqs[r].pc = "received"
    /\ downloads' = Append(downloads, NoArtifact)
    /\ reqs' = [reqs EXCEPT ![r].session_id = Len(downloads) + 1,
                            ![r].pc = "session"]
    /\ UNCHANGED <<uploads, runVars, fnVars, m1Vars>>

\* file.save(os.path.join(UPLOAD_FOLDER, filename))
SaveUpload(r) ==
    /\ reqs[r].pc = "session"
    /\ uploads' = [uploads EXCEPT ![reqs[r].filename] = reqs[r].file]
    /\ reqs' = [reqs EXCEPT ![r].pc = "saved"]
    /\ UNCHANGED <<downloads, runVars, fnVars, m1Vars>>

\* pd.read_excel(file_path), pd.read_csv(self.input_csv_path)
ReadUpload(r) ==
    /\ reqs[r].pc = "saved"
    /\ IF uploads[reqs[r].filename] = NoFile
       THEN reqs' = [reqs EXCEPT ![r].pc = "raised",
                                 ![r].error = "FileNotFoundError"]
       ELSE reqs' = [reqs EXCEPT ![r].pc = "read",
                                 ![r].df = uploads[reqs[r].filename]]
    /\ UNCHANGED <<uploads, downloads, runVars, fnVars, m1Vars>>

\* the table is processed and the artifact written in the session folder;
\* a table without its URL column ends the request before the clean-up
ProcessUpload(r) ==
    /\ reqs[r].pc = "read"
    /\ IF reqs[r].df.valid
       THEN /\ downloads' = [downloads EXCEPT ![reqs[r].session_id] =
                                 [madeFrom |-> reqs[r].df.owner]]
            /\ reqs' = [reqs EXCEPT ![r].pc = "processed"]
       ELSE /\ downloads' = downloads
            /\ reqs' = IF reqs[r].endpoint = "process_model1"
                       THEN [reqs EXCEPT ![r].pc = "redirected"]
                       ELSE [reqs EXCEPT ![r].pc = "raised",
                                         ![r].error = "KeyError"]
    /\ UNCHANGED <<uploads, runVars, fnVars, m1Vars>>

\* os.remove(file_path)
RemoveUpload(r) ==
    /\ reqs[r].pc = "processed"
    /\ IF uploads[reqs[r].filename] = NoFile
       THEN /\ reqs' = [reqs EXCEPT ![r].pc = "raised",
                                    ![r].error = "FileNotFoundError"]
            /\ uploads' = uploads
       ELSE /\ reqs' = [reqs EXCEPT ![r].pc = "removed",
                                    ![r].removed = uploads[reqs[r].filename]]
            /\ uploads' = [uploads EXCEPT ![reqs[r].filename] = NoFile]
    /\ UNCHANGED <<downloads, runVars, fnVars, m1Vars>>

\* send_file of the artifact of the session folder
SendArtifact(r) ==
    /\ reqs[r].pc = "removed"
    /\ reqs' = [reqs EXCEPT ![r].pc = "sent",
                            ![r].sent = downloads[reqs[r].session_id]]
    /\ UNCHANGED <<uploads, downloads, runVars, fnVars, m1Vars>>

NextConcurrent ==
    \/ \E r \in DOMAIN reqs : NewSession(r)
    \/ \E r \in DOMAIN reqs : SaveUpload(r)
    \/ \E r \in DOMAIN reqs : ReadUpload(r)
    \/ \E r \in DOMAIN reqs : ProcessUpload(r)
    \/ \E r \in DOMAIN reqs : RemoveUpload(r)
    \/ \E r \in DOMAIN reqs : SendArtifact(r)

InitSpecConcurrent == InitConcurrent /\ IdleRun /\ IdleFn /\ IdleModel1

SpecConcurrent == InitSpecConcurrent /\ [][NextConcurrent]_vars

(***************************************************************************)
(* Claims about the verification path, checked under SpecRun.              *)
(***************************************************************************)
UrlValues(table) == {table.rows[i].url : i \in DOMAIN table.rows}

ResultsFor(u) == {i \in DOMAIN results : results[i].website_url = u}

RunReturned == pc \in {"feedback", "done"}

\* C1: when run finishes, results holds exactly one SiteResult for every
\* distinct value of the Website URL column and none for any other URL; no
\* exception of a task leaves run (run raises only when the URL column is
\* absent, before any task exists) and run is never stuck while a task has
\* failed, so the other results are still collected.
C1_OneResultPerDistinctUrl ==
    /\ RunReturned =>
          /\ \A u \in UrlValues(df) : Cardinality(ResultsFor(u)) = 1
          /\ \A i \in DOMAIN results : results[i].website_url \in UrlValues(df)
    /\ pc = "raised" => "Website URL" \notin df.columns /\ futures = <<>>
    /\ pc \in {"start", "pool", "feedback"} => ENABLED NextRun

\* C1 witness: a finished batch over a table with a repeated URL, where one
\* task raised and another returned
C1_Witness ==
    /\ pc = "done"
    /\ Len(df.rows) > Cardinality(UrlValues(df))
    /\ \E i, j \in DOMAIN futures :
          /\ futures[i].state = "failed"
          /\ futures[j].state = "completed"
    /\ Len(results) = Cardinality(UrlValues(df))

\* C2: in every reachable state of a batch at most 5 process_website tasks
\* are running, however many URLs were submitted.
C2_AtMostFiveRunning == Cardinality(Running(futures)) <= 5

\* C2 witness: five tasks running while a sixth is still pending
C2_Witness ==
    /\ Cardinality(Running(futures)) = 5
    /\ \E i \in DOMAIN futures : futures[i].state = "pending"

TaskStep(a, b) ==
    \/ a = b
    \/ a = "pending" /\ b = "running"
    \/ a = "running" /\ b \in {"completed", "failed"}

Contains(pieces, text) == \E k \in DOMAIN pieces : pieces[k] = text

FailedTaskRecorded ==
    /\ \A i \in DOMAIN results :
          futures[i].state = "failed" =>
             /\ results[i].website_url = website_urls[i]
             /\ results[i].new_members = <<>>
             /\ results[i].search_status = "error"
             /\ Contains(results[i].feedback, futures[i].outcome.raised.text)
             /\ results[i].feedback \notin {<<"GOOD">>, <<"AVERAGE">>, <<"POOR">>}
    /\ pc = "raised" => futures = <<>>
    /\ (RunReturned /\ \E i \in DOMAIN futures : futures[i].state = "failed")
          => Len(results) = Len(futures)

TaskStateMachine ==
    /\ \A i \in DOMAIN futures :
          /\ i \in DOMAIN futures'
          /\ TaskStep(futures[i].state, futures'[i].state)
    /\ \A i \in DOMAIN futures' :
          i \notin DOMAIN futures => futures'[i].state = "pending"

\* C6: a task moves only pending -> running -> completed or failed, both
\* final; for a task that raised, run records a SiteResult with no new
\* members, search_status error and a feedback that carries the text of the
\* exception, and the exception does not leave run.
C6_FailedTaskBecomesErrorResult ==
    []FailedTaskRecorded /\ [][TaskStateMachine]_vars

\* C6 witness: a finished batch that holds the placeholder of a failed task
C6_Witness ==
    /\ pc = "done"
    /\ \E i \in DOMAIN results :
          /\ futures[i].state = "failed"
          /\ results[i].search_status = "error"
          /\ results[i].new_members = <<>>

(***************************************************************************)
(* Claims about filter_new_members, checked under SpecFilter.              *)
(***************************************************************************)
SameLetter(c, d) == c = d \/ {c, d} = {"a", "A"} \/ {c, d} = {"b", "B"}

EqualIgnoringCase(s, t) ==
    /\ Len(s) = Len(t)
    /\ \A i \in DOMAIN s : SameLetter(s[i], t[i])

\* some existing member has the candidate's first name and its last name
Known(member, existing_members) ==
    \E i \in DOMAIN existing_members :
        /\ EqualIgnoringCase(get(member, "First Name"),
                             existing_members[i].first)
        /\ EqualIgnoringCase(get(member, "Last Name"),
                             existing_members[i].last)

\* C3: filter_new_members returns exactly the candidates, in their original
\* order, for which no existing member has both a case-insensitively equal
\* first name and a case-insensitively equal last name.
C3_FilterKeepsExactlyUnknown ==
    (call.fn = "filter_new_members" /\ ret.done) =>
        ret.value = SelectSeq(call.all_members,
                        LAMBDA m : ~Known(m, call.existing_members))

\* C3 witness: a call that drops a candidate known under another spelling
\* and keeps two others, one of them sharing only the first name
C3_Witness ==
    /\ call.fn = "filter_new_members"
    /\ ret.done
    /\ Len(ret.value) = 2
    /\ Len(call.all_members) = 3
    /\ \E i \in DOMAIN call.all_members :
          /\ Known(call.all_members[i], call.existing_members)
          /\ call.all_members[i] \notin Range(call.existing_members)
    /\ \E i \in DOMAIN ret.value : \E j \in DOMAIN call.existing_members :
          /\ ret.value[i].first = call.existing_members[j].first
          /\ "Last Name" \in ret.value[i].keys

(***************************************************************************)
(* Claims about process_website, checked under SpecSite.                   *)
(***************************************************************************)
ScoreLabels == {<<"GOOD">>, <<"AVERAGE">>, <<"POOR">>}

SiteReturned ==
    call.fn = "process_website" /\ ret.done /\ ret.outcome.raised = NoExc

\* C4: the feedback of a SiteResult that process_website returns depends on
\* the number of new members only: GOOD for 0, AVERAGE for 1 to 5, POOR for
\* more than 5.
C4_FeedbackFromCount ==
    SiteReturned =>
        LET n == Len(ret.outcome.value.new_members)
            fb == ret.outcome.value.feedback
        IN /\ n = 0 => fb = <<"GOOD">>
           /\ n \in 1..5 => fb = <<"AVERAGE">>
           /\ n > 5 => fb = <<"POOR">>

\* C4 witness: six new members, scored POOR
C4_Witness ==
    /\ SiteReturned
    /\ Len(ret.outcome.value.new_members) = 6
    /\ ret.outcome.value.feedback = <<"POOR">>

\* the reply is a fetch or parse error: no connection, a status outside 2xx,
\* a body that is not JSON, a missing or short candidate/part structure, or
\* a text that json.loads rejects
FetchOrParseError(resp) ==
    \/ resp.transport = "error"
    \/ resp.status \notin 200..299
    \/ resp.body = "invalid"
    \/ resp.candidates \in {"missing", "empty"}
    \/ resp.content = "missing"
    \/ resp.parts \in {"missing", "empty"}
    \/ resp.text = "missing"
    \/ json_loads(Cleanup(resp.chars), resp.payload) = NotJson

\* C5: when the extraction for a URL fails with a fetch or parse error, the
\* SiteResult for that URL carries a feedback that is an error string and is
\* none of GOOD, AVERAGE, POOR.
C5_ExtractionErrorGivesErrorFeedback ==
    (SiteReturned /\ FetchOrParseError(call.resp)) =>
        ret.outcome.value.feedback \notin ScoreLabels

(***************************************************************************)
(* Claims about the extractors, checked under SpecExtract.                 *)
(***************************************************************************)
\* C7: in both paths a transport error, a non-2xx status, a missing or short
\* candidate/part structure or a JSON decode failure is caught inside the
\* extractor and comes back as its error result (None from
\* process_board_members, a dict of status error from
\* search_for_board_members); no exception leaves the extractor.
C7_ExtractorReturnsErrorResult ==
    (call.fn = "extract" /\ FetchOrParseError(call.resp)) =>
        /\ ret.search.called => ret.search.outcome = Returned(PyNone)
        /\ ret.verify.called =>
              /\ ret.verify.outcome.raised = NoExc
              /\ ret.verify.outcome.value.type = "dict"
              /\ "status" \in ret.verify.outcome.value.keys
              /\ ret.verify.outcome.value.status = "error"

\* C7 witness: both extractors called on a reply whose first part has no text
C7_Witness ==
    /\ call.fn = "extract"
    /\ ret.search.called
    /\ ret.verify.called
    /\ call.resp.transport = "ok"
    /\ call.resp.status = 200
    /\ call.resp.body = "json"
    /\ call.resp.candidates = "one"
    /\ call.resp.content = "present"
    /\ call.resp.parts = "one"
    /\ call.resp.text = "missing"

(***************************************************************************)
(* Claims about the two upload handlers, checked under SpecUpload.         *)
(***************************************************************************)
Model1Started == m1_pc \notin {"idle", "validate"}

RunStarted == pc \notin {"idle", "start"}

NothingProcessed ==
    /\ m1_calls = <<>>
    /\ ~csv_file.exists
    /\ csv_file.lines = <<>>

NothingDispatched ==
    /\ futures = <<>>
    /\ results = <<>>
    /\ written = {}

\* C8 as stated: when a required column is absent (single-shot: the site-URL
\* column; verification: any of Website URL, First Name, Last Name, Title,
\* Biography, Status, Comments) the request fails at once and nothing is
\* dispatched, extracted or written.
C8_AnyRequiredColumnAbsentFailsRequest ==
    /\ (Model1Started /\ UrlColumnName \notin sheet.columns) =>
          (m1_pc = "redirected" /\ flashed # <<>> /\ NothingProcessed)
    /\ df.columns # VerifierColumns => (NothingDispatched /\ ~RunReturned)
    /\ (RunStarted /\ "Website URL" \notin df.columns) => pc = "raised"

\* C8 amended: when the site-URL column is absent (single-shot: Portfolio
\* company Website; verification: Website URL) the request fails at once,
\* with a flashed message or the KeyError of run, and nothing is
\* dispatched, extracted or written; the absence of another column of the
\* verification table never makes run raise.
C8_UrlColumnAbsentFailsRequest ==
    /\ (Model1Started /\ UrlColumnName \notin sheet.columns) =>
          (m1_pc = "redirected" /\ flashed # <<>> /\ NothingProcessed)
    /\ (RunStarted /\ "Website URL" \notin df.columns) =>
          /\ pc = "raised"
          /\ error = Exc("KeyError", "'Website URL'")
          /\ NothingDispatched
    /\ "Website URL" \in df.columns => pc # "raised"

\* C8 witness: run has raised on a table of several rows without the
\* Website URL column
C8_Witness ==
    /\ pc = "raised"
    /\ "Website URL" \notin df.columns
    /\ Len(df.rows) > 1
    /\ NothingDispatched

(***************************************************************************)
(* Claims about the single-shot path, checked under SpecModel1.            *)
(***************************************************************************)
HeaderFirstAndOnly ==
    /\ csv_file.exists => csv_file.lines # <<>>
    /\ csv_file.lines # <<>> =>
          /\ csv_file.lines[1].kind = "header"
          /\ \A i \in 2..Len(csv_file.lines) : csv_file.lines[i].kind = "row"

Added == SubSeq(csv_file'.lines, Len(csv_file.lines) + 1, Len(csv_file'.lines))

\* the file only grows; the write that fills the empty file starts with the
\* header and no later write adds one
HeaderByFirstWrite ==
    /\ Len(csv_file'.lines) >= Len(csv_file.lines)
    /\ SubSeq(csv_file'.lines, 1, Len(csv_file.lines)) = csv_file.lines
    /\ (csv_file.lines = <<>> /\ Added # <<>>) => Added[1].kind = "header"
    /\ csv_file.lines # <<>> =>
          \A i \in DOMAIN Added : Added[i].kind = "row"

\* C9: for any sequence of extractor results appended with save_to_csv to a
\* fresh output file, the file holds exactly one header line, it is the
\* first line, it comes from the first write that put data in the file, and
\* no later append writes a header.
C9_HeaderWrittenOnce == []HeaderFirstAndOnly /\ [][HeaderByFirstWrite]_vars

\* C9 witness: a file sent after two URLs whose records have different
\* fields were appended to it
C9_Witness ==
    /\ m1_pc = "sent"
    /\ Len(m1_calls) >= 2
    /\ \E i \in 2..Len(csv_file.lines) :
          /\ csv_file.lines[i].fields # csv_file.lines[1].fields
          /\ csv_file.lines[i].url # csv_file.lines[2].url

AddedRows == SelectSeq(Added, LAMBDA line : line.kind = "row")

OneNotFoundRow(website_url, comment) ==
    /\ Len(AddedRows) = 1
    /\ AddedRows[1].url = website_url
    /\ AddedRows[1].Status = "Not Found"
    /\ AddedRows[1].Comments = comment

LastCall == m1_calls[Len(m1_calls)]

\* the extractor returned exactly one record whose Status is the sentinel
ReturnedSentinel(board) ==
    /\ board.raised = NoExc
    /\ board.value.type = "list"
    /\ Len(board.value.items) = 1
    /\ "Status" \in Range(board.value.items[1].keys)
    /\ board.value.items[1].Status = "No board members found"

ReturnedNone(board) == board.raised = NoExc /\ board.value = PyNone

NormalizedStep ==
    m1_calls' # m1_calls =>
        LET c == m1_calls'[Len(m1_calls')]
        IN /\ ReturnedSentinel(c.board) =>
                 OneNotFoundRow(c.url, "No board members found")
           /\ ReturnedNone(c.board) =>
                 OneNotFoundRow(c.url, "API call failed or no data returned")

\* C10: for a URL whose extractor result is exactly one record with Status
\* No board members found, whatever its other fields, exactly one row is
\* written for that URL, with Status Not Found and comment No board members
\* found; for a URL whose extractor result is None, exactly one row, with
\* Status Not Found and comment API call failed or no data returned.
C10_NotFoundRows == [][NormalizedStep]_vars

\* C10 witness: the sentinel record with a further field has just been
\* turned into the one Not Found row, after another URL wrote the header
C10_Witness ==
    /\ Len(m1_calls) >= 2
    /\ LastCall.board = Returned(PyList(<<NoResultsWithName>>))
    /\ LET last == csv_file.lines[Len(csv_file.lines)]
       IN /\ last.kind = "row"
          /\ last.url = LastCall.url
          /\ last.Status = "Not Found"
          /\ last.Comments = "No board members found"
    /\ Len(csv_file.lines) >= 3

(***************************************************************************)
(* C11, C15: the outputs of run against the tasks of the pool.             *)
(***************************************************************************)
Settled(f) == f.state \in {"completed", "failed"}

AllTasksSettled ==
    /\ Len(futures) = Len(website_urls)
    /\ \A i \in DOMAIN futures : Settled(futures[i])

AnOutputWritten == written # {} \/ output_csv # <<>> \/ feedback_csv # <<>>

\* C11: the enhanced-members CSV and the feedback CSV are written only after
\* every dispatched URL task is completed or failed: in no reachable state
\* is an output file written while a task is pending or running.
C11_OutputsWrittenAfterAllTasks ==
    /\ AnOutputWritten => AllTasksSettled
    /\ pc \in {"feedback", "done"} => "output_csv" \in written
    /\ pc = "done" => written = {"output_csv", "feedback_csv"}

\* both files written after a batch larger than the pool, in which a task
\* failed and a task completed
C11_Witness ==
    /\ written = {"output_csv", "feedback_csv"}
    /\ Len(futures) > max_workers
    /\ \E i \in DOMAIN futures : futures[i].state = "failed"
    /\ \E i \in DOMAIN futures : futures[i].state = "completed"

\* the row of the input table in which a URL first occurs
FirstIndex(u) ==
    CHOOSE i \in DOMAIN df.rows :
        /\ df.rows[i].url = u
        /\ \A j \in 1..(i - 1) : df.rows[j].url # u

\* the number of distinct URLs that first occur at or before u
Rank(u) ==
    Cardinality({v \in UrlValues(df) : FirstIndex(v) <= FirstIndex(u)})

\* s lists URLs of the table so that the k-th entry is the k-th distinct URL
ByFirstOccurrence(s) ==
    \A k \in DOMAIN s : s[k] \in UrlValues(df) /\ Rank(s[k]) = k

\* s lists URLs of the table, a URL that occurs earlier never after a later one
GroupedByFirstOccurrence(s) ==
    /\ \A k \in DOMAIN s : s[k] \in UrlValues(df)
    /\ \A k, l \in DOMAIN s : k < l => Rank(s[k]) <= Rank(s[l])

AppendedRows == SubSeq(output_csv, Len(df.rows) + 1, Len(output_csv))

CellsOf(u, n) == {i \in 1..n : sheet.cells[i] = u}

RowsOf(u) ==
    {k \in DOMAIN csv_file.lines :
        csv_file.lines[k].kind = "row" /\ csv_file.lines[k].url = u}

\* each of the first n cells that holds a URL has a row of its own
CellsHaveRows(n) ==
    \A i \in 1..n :
        sheet.cells[i] # NaN =>
            Cardinality(RowsOf(sheet.cells[i])) >=
                Cardinality(CellsOf(sheet.cells[i], n))

\* C12: after a request completes, every non-blank URL cell of the input
\* has contributed at least one row to the produced CSV, whatever the
\* extractor gave for it, records of differing key sets included: a failure
\* for a URL is a row, never a URL missing from the artifact.
C12_EveryUrlCellHasARow ==
    /\ m1_pc = "sent" => CellsHaveRows(Len(sheet.cells))
    /\ m1_pc = "loop" => CellsHaveRows(m1_i)

\* a sent artifact for a sheet with a blank cell, a URL whose call failed and
\* a URL whose second record has a key the first one lacks
C12_Witness ==
    /\ m1_pc = "sent"
    /\ \E i \in DOMAIN sheet.cells : sheet.cells[i] = NaN
    /\ \E c \in DOMAIN m1_calls : m1_calls[c].board.value = PyNone
    /\ \E c \in DOMAIN m1_calls :
          /\ m1_calls[c].board.value = PyList(<<BoardMember, MemberWithEmail>>)
          /\ Cardinality(RowsOf(m1_calls[c].url)) = 1

(***************************************************************************)
(* C14: the cleanup of a text without fence, checked under SpecCleanup.    *)
(***************************************************************************)
HasFence(s) ==
    \E i \in 1..(Len(s) - 2) : s[i] = BQ /\ s[i + 1] = BQ /\ s[i + 2] = BQ

HasBackslash(s) == \E i \in DOMAIN s : s[i] = "\\"

Trimmed(s) == s = <<>> \/ (s[1] \notin Whitespace /\ s[Len(s)] \notin Whitespace)

WithoutBackslashes(s) == SelectSeq(s, LAMBDA c : c # "\\")

\* v is w without its leading and trailing white space
TrimOf(w, v) ==
    /\ Trimmed(v)
    /\ \E a, b \in 0..Len(w) :
          /\ v = SubSeq(w, a + 1, b)
          /\ \A i \in (1..a) \union ((b + 1)..Len(w)) : w[i] \in Whitespace

CleanedUp == call.fn = "cleanup" /\ ret.done

\* C14 as stated: the cleanup (remove every fence-json marker, then every
\* fence, then every backslash, then trim the surrounding white space)
\* returns its input unchanged for every text without a fence marker.
C14_NoFenceIsNoOp ==
    (CleanedUp /\ ~HasFence(call.text)) => ret.value = call.text

\* C14 amended: the cleanup returns its input unchanged for every text with
\* no fence marker, no backslash and no leading or trailing white space; for
\* any text without a fence marker it returns the text without its
\* backslashes and without its leading and trailing white space.
C14_NoFenceNoBackslashTrimmedIsNoOp ==
    (CleanedUp /\ ~HasFence(call.text)) =>
        /\ TrimOf(WithoutBackslashes(call.text), ret.value)
        /\ (~HasBackslash(call.text) /\ Trimmed(call.text)) =>
              ret.value = call.text

\* a text of back-quotes short of a fence around inner white space, cleaned
\* up to itself
C14_Witness ==
    /\ CleanedUp
    /\ call.text = <<BQ, BQ, " ", "P">>
    /\ ret.value = call.text

(***************************************************************************)
(* C13: requests handled at the same time, checked under SpecConcurrent.   *)
(***************************************************************************)
InFlight(r) == reqs[r].pc \in {"session", "saved", "read", "processed", "removed"}

FreshSessions ==
    \A r, q \in DOMAIN reqs :
        (r # q /\ reqs[r].session_id # 0) =>
            reqs[r].session_id # reqs[q].session_id

\* between saving and removing it, the request finds its own file in place
OwnUploadInPlace(r) ==
    reqs[r].pc \in {"saved", "read", "processed"} =>
        uploads[reqs[r].filename] = reqs[r].file

\* what the request read, removed and sent is its own
TouchedOnlyOwn(r) ==
    /\ reqs[r].df \in {NoFile, reqs[r].file}
    /\ reqs[r].removed \in {NoFile, reqs[r].file}
    /\ reqs[r].sent.madeFrom \in {0, r}
    /\ reqs[r].error # "FileNotFoundError"

\* C13: upload requests handled concurrently are isolated: each gets a fresh
\* session identifier, and no request reads, overwrites or deletes a file,
\* uploaded input or output artifact, of another request in flight, also
\* when two requests upload files of the same name.
C13_RequestsIsolated ==
    /\ FreshSessions
    /\ \A r \in DOMAIN reqs : OwnUploadInPlace(r) /\ TouchedOnlyOwn(r)

====
